---- MODULE Spec2Model ----
(***************************************************************************)
(* A model of the listing scrapers: the two stores written by              *)
(* save_to_database (bayside_scraper.py, rpemx_scraper.py), the two crawl  *)
(* loops of main(), and the HTTP front-end that starts them (api.py).      *)
(*                                                                         *)
(* bayside_scraper.py lines 371-429: the bodies of "if existing:" and      *)
(* "else:" are dedented in the source and the "try:" of line 362 has no    *)
(* handler of its own.  The model reads them as the if/else they spell     *)
(* out, with the only handler that exists: the "except Exception" of line  *)
(* 456, which rolls the whole transaction back.                            *)
(***************************************************************************)
EXTENDS Integers, Sequences, FiniteSets

\* ------------------------------------------------------------------ bounds
MaxPid == 1          \* property ids 1..MaxPid; 0 is the empty property_id ''
MaxUrl == 2          \* listing urls 1..MaxUrl
MaxBatch == 2        \* entries of one data_list handed to the batch write
MaxCap == 2          \* values 1..MaxCap of MAX_LISTINGS
MaxPage == 2         \* index pages 1..MaxPage, API pages 1..MaxPage
MaxPageLen == 2      \* listing links on one index page or API page
MaxPending == 2      \* background tasks accepted and not yet started
MaxRuns == 2         \* background tasks one behaviour starts
MaxElems == 2        \* elements a page has, or lacks, of those scrape_listing looks for
MaxImg == 2          \* image urls 1..MaxImg
MaxItems == 2        \* items of the image carousel

\* MAX_LISTINGS = 1 if TEST_MODE else 35, with TEST_MODE = True
DefaultMaxListings == 1

EmptyPid == 0
PIDs == 0..MaxPid
URLs == 1..MaxUrl
\* What scrape_listing returns, as far as the stores look at it.
Listings == [property_id : PIDs, url : URLs]

Sites == {"bayside", "rpemx"}

VARIABLES
    site,                     \* the scraper program that runs: "bayside" | "rpemx"
    property_listings,        \* bayside table, as the open connection sees it
    committed,                \* bayside table, as committed (what rollback restores)
    rpemx_property_listings,  \* rpemx table
    spc,                      \* position in bayside save_to_database: "idle" | "loop"
    nbatch,                   \* entries of data_list the loop has written
    op,                       \* the last store operation
    lastUp                    \* the last row write of the pipeline, if nothing wrote since

storeVars == <<site, property_listings, committed, rpemx_property_listings,
               spc, nbatch, op, lastUp>>

VARIABLES
    MAX_LISTINGS,             \* the module global of the running scraper
    cpc,                      \* position in main(): "while" | "for" | "next" | "finally" | "done"
    base_url,                 \* bayside: the index page to read next, NoPage for None
    current_page,             \* rpemx: the API page to read next
    listing_urls,             \* what is left of the list the for loop walks
    total_listings,
    scraped_urls,
    all_listings_data,        \* bayside: the listings collected for the batch write
    outcome,                  \* "running" | "raising" | "returned" | "raised"
    ev,                       \* the last step of the crawl
    lastFetch,                \* the url of the last listing page requested
    nfetch,                   \* listing pages requested so far
    stop                      \* why the loop ended: "none" | "cycle" | "done" | "cap" | ...

crawlVars == <<MAX_LISTINGS, cpc, base_url, current_page, listing_urls, total_listings,
               scraped_urls, all_listings_data, outcome, ev, lastFetch, nfetch, stop>>

VARIABLES
    scraper_status,           \* the ScraperStatus object of api.py
    pending,                  \* background tasks added and not yet started
    running,                  \* the background task the event loop runs, or NoTask
    now,                      \* the clock datetime.now() reads
    response,                 \* the last answer to a start request
    seqlog                    \* what the last run_sequence did

apiVars == <<scraper_status, pending, running, now, response, seqlog>>

VARIABLES
    soup,                     \* the parsed page scrape_listing works on
    listing_data              \* the dict scrape_listing returns, NoData before

pageVars == <<soup, listing_data>>

VARIABLES
    index_pages               \* the site: what each index page holds, NoSite when
                              \* the pages are whatever each request returns

webVars == <<index_pages>>

vars == <<storeVars, crawlVars, apiVars, pageVars, webVars>>

NoRow == [kind |-> "norow"]
NoUp == [kind |-> "noup"]

\* ------------------------------------------------------- bayside store
\* check_existing_sql: SELECT ... WHERE property_id = %s
BaysideSelect(T, data) ==
    {i \in 1..Len(T) : T[i].property_id = data.property_id}

\* cursor.fetchone(): the first matching row, or None
BaysideExisting(T, data) ==
    IF BaysideSelect(T, data) = {} THEN NoRow
    ELSE T[CHOOSE i \in BaysideSelect(T, data) :
               \A j \in BaysideSelect(T, data) : i <= j]

\* mutant: the update resets isnew
BaysideUpdateRowResetsIsNew(row, data) ==
    [row EXCEPT !.url = data.url, !.isnew = FALSE]

\* update_sql: every listing column and url are set, isnew is not named
BaysideUpdateRow(row, data) ==
    [row EXCEPT !.url = data.url]

\* mutant: the insert leaves isnew false
BaysideInsertRowNotNew(data) ==
    [property_id |-> data.property_id, url |-> data.url, isnew |-> FALSE]

\* insert_sql with insert_values: isnew is the literal True
BaysideInsertRow(data) ==
    [property_id |-> data.property_id, url |-> data.url, isnew |-> TRUE]

\* one iteration of "for data in data_list"
BaysideUpsert(T, data) ==
    IF BaysideExisting(T, data) # NoRow
    THEN [i \in 1..Len(T) |->
            IF T[i].property_id = data.property_id
            THEN BaysideUpdateRow(T[i], data) ELSE T[i]]
    ELSE Append(T, BaysideInsertRow(data))

\* --------------------------------------------------------- rpemx store
\* check_sql: SELECT property_id ... WHERE url = %s
RpemxSelect(T, data) ==
    {i \in 1..Len(T) : T[i].url = data.url}

RpemxExisting(T, data) ==
    IF RpemxSelect(T, data) = {} THEN NoRow
    ELSE T[CHOOSE i \in RpemxSelect(T, data) :
               \A j \in RpemxSelect(T, data) : i <= j]

\* mutant: the update does not name processed
RpemxUpdateRowKeepsProcessed(row, data) ==
    [row EXCEPT !.property_id = data.property_id]

\* update_sql: property_id=%s, ..., processed=0 ... WHERE url=%s
RpemxUpdateRow(row, data) ==
    [row EXCEPT !.property_id = data.property_id, !.processed = FALSE]

\* insert_sql: processed is the literal 0
RpemxInsertRow(data) ==
    [property_id |-> data.property_id, url |-> data.url, processed |-> FALSE]

RpemxUpsert(T, data) ==
    IF RpemxExisting(T, data) # NoRow
    THEN [i \in 1..Len(T) |->
            IF T[i].url = data.url THEN RpemxUpdateRow(T[i], data) ELSE T[i]]
    ELSE Append(T, RpemxInsertRow(data))

\* -------------------------------------------------------------- ghost
\* The record of a row write: the listing, the row the lookup found
\* (NoRow: an insert), whether the write before it was of the same listing,
\* and whether the run of writes of this listing began with an insert.
UpRecord(data, before) ==
    LET again == lastUp # NoUp /\ lastUp.listing = data IN
    [listing |-> data,
     before  |-> before,
     repeat  |-> again,
     fresh   |-> IF again THEN lastUp.fresh ELSE before = NoRow]

\* ------------------------------------------------------------- actions
NoPage == 0
NonHttp == 0
NoTask == [kind |-> "none"]
NoSeq == [kind |-> "none"]
NoError == <<>>

\* ScraperStatus.__init__
InitialStatus ==
    [is_running |-> FALSE, last_run |-> 0, total_listings |-> 0,
     error_message |-> NoError,
     bayside_running |-> FALSE, rpemx_running |-> FALSE,
     bayside_last_run |-> 0, rpemx_last_run |-> 0,
     bayside_total |-> 0, rpemx_total |-> 0]

\* No front-end: the state of the api variables while a scraper runs alone.
ApiIdle ==
    /\ scraper_status = InitialStatus
    /\ pending = <<>>
    /\ running = NoTask
    /\ now = 0
    /\ response = "none"
    /\ seqlog = NoSeq

\* No page: scrape_listing has not been called.
NoSoup == [kind |-> "nosoup"]
NoData == [kind |-> "nodata"]

PageIdle ==
    /\ soup = NoSoup
    /\ listing_data = NoData

\* No fixed site.
NoSite == [kind |-> "nosite"]

WebIdle == index_pages = NoSite

\* No crawl: the state of the crawl variables while only the store is exercised.
CrawlIdle ==
    /\ MAX_LISTINGS = DefaultMaxListings
    /\ cpc = "done"
    /\ base_url = NoPage
    /\ current_page = 1
    /\ listing_urls = <<>>
    /\ total_listings = 0
    /\ scraped_urls = {}
    /\ all_listings_data = <<>>
    /\ outcome = "returned"
    /\ ev = "none"
    /\ lastFetch = NonHttp
    /\ nfetch = 0
    /\ stop = "none"

StoreInit ==
    /\ site \in Sites
    /\ property_listings = <<>>
    /\ committed = <<>>
    /\ rpemx_property_listings = <<>>
    /\ spc = "idle"
    /\ nbatch = 0
    /\ op = "none"
    /\ lastUp = NoUp
    /\ CrawlIdle
    /\ ApiIdle
    /\ PageIdle
    /\ WebIdle

\* bayside save_to_database, up to the loop: connect, cursor, CREATE TABLE
SaveBegin ==
    /\ UNCHANGED <<crawlVars, apiVars, pageVars, webVars>>
    /\ site = "bayside" /\ spc = "idle"
    /\ spc' = "loop"
    /\ nbatch' = 0
    /\ op' = "begin"
    /\ UNCHANGED <<site, property_listings, committed, rpemx_property_listings, lastUp>>

\* mysql.connector.connect raises: the handler of line 456 reads conn, which
\* was never bound, and save_to_database raises
SaveConnectFails ==
    /\ UNCHANGED <<crawlVars, apiVars, pageVars, webVars>>
    /\ site = "bayside" /\ spc = "idle"
    /\ op' = "raised"
    /\ UNCHANGED <<site, property_listings, committed, rpemx_property_listings,
                   spc, nbatch, lastUp>>

\* one iteration of the loop that succeeds
SaveListing(data) ==
    /\ UNCHANGED <<crawlVars, apiVars, pageVars, webVars>>
    /\ site = "bayside" /\ spc = "loop" /\ nbatch < MaxBatch
    /\ property_listings' = BaysideUpsert(property_listings, data)
    /\ lastUp' = UpRecord(data, BaysideExisting(property_listings, data))
    /\ nbatch' = nbatch + 1
    /\ op' = "upsert"
    /\ UNCHANGED <<site, committed, rpemx_property_listings, spc>>

\* one iteration whose statement raises: nothing catches it inside the loop,
\* the handler of line 456 prints the error and rolls the transaction back
SaveListingFails ==
    /\ UNCHANGED <<crawlVars, apiVars, pageVars, webVars>>
    /\ site = "bayside" /\ spc = "loop" /\ nbatch < MaxBatch
    /\ property_listings' = committed
    /\ spc' = "idle"
    /\ op' = "rollback"
    /\ lastUp' = NoUp
    /\ UNCHANGED <<site, committed, rpemx_property_listings, nbatch>>

\* the loop is through data_list: conn.commit()
SaveCommit ==
    /\ UNCHANGED <<crawlVars, apiVars, pageVars, webVars>>
    /\ site = "bayside" /\ spc = "loop" /\ nbatch >= 1
    /\ committed' = property_listings
    /\ spc' = "idle"
    /\ op' = "commit"
    /\ UNCHANGED <<site, property_listings, rpemx_property_listings, nbatch, lastUp>>

\* rpemx save_to_database(data): select, update or insert, commit
RpemxSave(data) ==
    /\ UNCHANGED <<crawlVars, apiVars, pageVars, webVars>>
    /\ site = "rpemx"
    /\ rpemx_property_listings' = RpemxUpsert(rpemx_property_listings, data)
    /\ lastUp' = UpRecord(data, RpemxExisting(rpemx_property_listings, data))
    /\ op' = "upsert"
    /\ UNCHANGED <<site, property_listings, committed, spc, nbatch>>

\* rpemx save_to_database(data) whose statement raises: printed, rolled back
RpemxSaveFails ==
    /\ UNCHANGED <<crawlVars, apiVars, pageVars, webVars>>
    /\ site = "rpemx"
    /\ op' = "rollback"
    /\ lastUp' = NoUp
    /\ UNCHANGED <<site, property_listings, committed, rpemx_property_listings,
                   spc, nbatch>>

\* A consumer outside the pipeline clears isnew of a committed row.
ConsumerClearsIsNew(i) ==
    /\ UNCHANGED <<crawlVars, apiVars, pageVars, webVars>>
    /\ site = "bayside" /\ spc = "idle"
    /\ i \in 1..Len(property_listings)
    /\ property_listings[i].isnew
    /\ property_listings' = [property_listings EXCEPT ![i].isnew = FALSE]
    /\ committed' = property_listings'
    /\ op' = "consumer"
    /\ lastUp' = NoUp
    /\ UNCHANGED <<site, rpemx_property_listings, spc, nbatch>>

\* A consumer outside the pipeline marks a row processed.
ConsumerMarksProcessed(i) ==
    /\ UNCHANGED <<crawlVars, apiVars, pageVars, webVars>>
    /\ site = "rpemx"
    /\ i \in 1..Len(rpemx_property_listings)
    /\ ~rpemx_property_listings[i].processed
    /\ rpemx_property_listings' =
           [rpemx_property_listings EXCEPT ![i].processed = TRUE]
    /\ op' = "consumer"
    /\ lastUp' = NoUp
    /\ UNCHANGED <<site, property_listings, committed, spc, nbatch>>

StoreNext ==
    \/ SaveBegin
    \/ SaveConnectFails
    \/ \E data \in Listings : SaveListing(data)
    \/ SaveListingFails
    \/ SaveCommit
    \/ \E data \in Listings : RpemxSave(data)
    \/ RpemxSaveFails
    \/ \E i \in 1..(MaxPid + 1) : ConsumerClearsIsNew(i)
    \/ \E i \in 1..MaxUrl : ConsumerMarksProcessed(i)

SpecStore == StoreInit /\ [][StoreNext]_vars

\* ---------------------------------------------------------- crawl loops
Pages == 1..MaxPage
\* What urljoin(page_url, href) can give: a listing url, or a link that is
\* no http url.
Hrefs == {NonHttp} \cup URLs
SeqsUpTo(S, n) == UNION {[1..k -> S] : k \in 0..n}

storeRest == <<site, spc, nbatch, op, lastUp, apiVars, pageVars, webVars>>

\* url.startswith('http')
IsHttp(url) == url # NonHttp

\* mutant: the seen set is not consulted
BaysideShouldScrapeUnseenOrNot(url, seen) == IsHttp(url)

\* bayside: if url.startswith('http') and url not in scraped_urls
BaysideShouldScrape(url, seen) == IsHttp(url) /\ url \notin seen

\* bayside: elif url in scraped_urls
BaysideIsDuplicate(url, seen) == url \in seen

\* mutant: the duplicate branch only breaks out of the for loop
BaysideAfterDuplicateKeepsPage(base) == base

\* bayside: base_url = None, in the duplicate branch
BaysideAfterDuplicate(base) == NoPage

\* mutant: the for loop never breaks on the cap
CapNeverReached(total, max) == FALSE

\* if total_listings >= MAX_LISTINGS: break
CapReached(total, max) == total >= max

\* bayside: while base_url and total_listings < MAX_LISTINGS
BaysideLoopGoesOn(base, total, max) == base # NoPage /\ total < max

\* rpemx: while total_listings < MAX_LISTINGS
RpemxLoopGoesOn(total, max) == total < max

\* url_exists_in_database with a query that answers: COUNT(*) > 0
UrlExists(T, url) == \E i \in 1..Len(T) : T[i].url = url

\* rpemx: if url not in scraped_urls and not url_exists_in_database(url)
RpemxShouldScrape(url, seen, exists) == url \notin seen /\ ~exists

\* the loop of bayside save_to_database over the whole data_list
RECURSIVE BaysideSaveAll(_, _)
BaysideSaveAll(T, data_list) ==
    IF data_list = <<>> THEN T
    ELSE BaysideSaveAll(BaysideUpsert(T, Head(data_list)), Tail(data_list))

\* how main() ends once its finally block is through
Ended(o) == IF o = "raising" THEN "raised" ELSE "returned"

IsFetch(e) ==
    e \in {"fetch_ok", "fetch_failed", "fetch_saved", "fetch_save_failed",
           "fetch_save_raised"}

\* the locals of main() at its first statement, with MAX_LISTINGS one of caps
CrawlStart(caps) ==
    /\ site \in Sites
    /\ property_listings = <<>>
    /\ committed = <<>>
    \* rows of an earlier run
    /\ rpemx_property_listings \in
           IF site = "rpemx"
           THEN {<<>>} \cup
                {<<RpemxInsertRow([property_id |-> EmptyPid, url |-> u])>> : u \in URLs}
           ELSE {<<>>}
    /\ spc = "idle"
    /\ nbatch = 0
    /\ op = "none"
    /\ lastUp = NoUp
    /\ MAX_LISTINGS \in caps
    /\ cpc = "while"
    /\ base_url = 1
    /\ current_page = 1
    /\ listing_urls = <<>>
    /\ total_listings = 0
    /\ scraped_urls = {}
    /\ all_listings_data = <<>>
    /\ outcome = "running"
    /\ ev = "start"
    /\ lastFetch = NonHttp
    /\ nfetch = 0
    /\ stop = "none"
    /\ ApiIdle
    /\ PageIdle

CrawlInit == CrawlStart(1..MaxCap) /\ WebIdle

\* ---- bayside main()
\* listing_urls = get_listing_urls(base_url)
BaysideGetListingUrls(urls) ==
    /\ site = "bayside" /\ cpc = "while"
    /\ BaysideLoopGoesOn(base_url, total_listings, MAX_LISTINGS)
    /\ listing_urls' = urls
    /\ cpc' = "for"
    /\ ev' = "index"
    /\ UNCHANGED <<storeRest, property_listings, committed, rpemx_property_listings,
                   MAX_LISTINGS, base_url, current_page, total_listings, scraped_urls,
                   all_listings_data, outcome, lastFetch, nfetch, stop>>

\* requests.get raises in get_listing_urls or in get_next_page_url: no handler
\* but finally
BaysideIndexFails ==
    /\ site = "bayside"
    /\ \/ cpc = "while" /\ BaysideLoopGoesOn(base_url, total_listings, MAX_LISTINGS)
       \/ cpc = "next" /\ base_url # NoPage
    /\ cpc' = "finally"
    /\ outcome' = "raising"
    /\ ev' = "index_failed"
    /\ stop' = "error"
    /\ UNCHANGED <<storeRest, property_listings, committed, rpemx_property_listings,
                   MAX_LISTINGS, base_url, current_page, listing_urls, total_listings,
                   scraped_urls, all_listings_data, lastFetch, nfetch>>

\* the while condition is false
BaysideLoopExit ==
    /\ site = "bayside" /\ cpc = "while"
    /\ ~BaysideLoopGoesOn(base_url, total_listings, MAX_LISTINGS)
    /\ cpc' = "finally"
    /\ ev' = "exit"
    /\ stop' = IF stop # "none" THEN stop
               ELSE IF base_url = NoPage THEN "done" ELSE "cap"
    /\ UNCHANGED <<storeRest, property_listings, committed, rpemx_property_listings,
                   MAX_LISTINGS, base_url, current_page, listing_urls, total_listings,
                   scraped_urls, all_listings_data, outcome, lastFetch, nfetch>>

\* the first branch of the for body, scrape_listing returns
BaysideScrapeOk(data) ==
    /\ site = "bayside" /\ cpc = "for" /\ listing_urls # <<>>
    /\ BaysideShouldScrape(Head(listing_urls), scraped_urls)
    /\ data.url = Head(listing_urls)
    /\ total_listings' = total_listings + 1
    /\ nfetch' = nfetch + 1
    /\ lastFetch' = Head(listing_urls)
    /\ all_listings_data' = Append(all_listings_data, data)
    /\ scraped_urls' = scraped_urls \cup {Head(listing_urls)}
    /\ listing_urls' = Tail(listing_urls)
    /\ cpc' = IF CapReached(total_listings', MAX_LISTINGS) THEN "next" ELSE "for"
    /\ ev' = "fetch_ok"
    /\ UNCHANGED <<storeRest, property_listings, committed, rpemx_property_listings,
                   MAX_LISTINGS, base_url, current_page, outcome, stop>>

\* mutant: the exception of scrape_listing leaves the loops, as if the try of
\* line 505 had no handler
BaysideScrapeFailurePropagates ==
    /\ site = "bayside" /\ cpc = "for" /\ listing_urls # <<>>
    /\ BaysideShouldScrape(Head(listing_urls), scraped_urls)
    /\ total_listings' = total_listings + 1
    /\ nfetch' = nfetch + 1
    /\ lastFetch' = Head(listing_urls)
    /\ listing_urls' = Tail(listing_urls)
    /\ cpc' = "finally"
    /\ outcome' = "raising"
    /\ stop' = "error"
    /\ ev' = "fetch_failed"
    /\ UNCHANGED <<storeRest, property_listings, committed, rpemx_property_listings,
                   MAX_LISTINGS, base_url, current_page, scraped_urls,
                   all_listings_data>>

\* the first branch of the for body, scrape_listing raises
BaysideScrapeFails ==
    /\ site = "bayside" /\ cpc = "for" /\ listing_urls # <<>>
    /\ BaysideShouldScrape(Head(listing_urls), scraped_urls)
    /\ total_listings' = total_listings + 1
    /\ nfetch' = nfetch + 1
    /\ lastFetch' = Head(listing_urls)
    /\ listing_urls' = Tail(listing_urls)
    /\ cpc' = IF CapReached(total_listings', MAX_LISTINGS) THEN "next" ELSE "for"
    /\ ev' = "fetch_failed"
    /\ UNCHANGED <<storeRest, property_listings, committed, rpemx_property_listings,
                   MAX_LISTINGS, base_url, current_page, scraped_urls,
                   all_listings_data, outcome, stop>>

\* the elif branch: a url that is in scraped_urls
BaysideDuplicate ==
    /\ site = "bayside" /\ cpc = "for" /\ listing_urls # <<>>
    /\ ~BaysideShouldScrape(Head(listing_urls), scraped_urls)
    /\ BaysideIsDuplicate(Head(listing_urls), scraped_urls)
    /\ base_url' = BaysideAfterDuplicate(base_url)
    /\ listing_urls' = Tail(listing_urls)
    /\ cpc' = "next"
    /\ ev' = "dup"
    /\ stop' = "cycle"
    /\ UNCHANGED <<storeRest, property_listings, committed, rpemx_property_listings,
                   MAX_LISTINGS, current_page, total_listings, scraped_urls,
                   all_listings_data, outcome, lastFetch, nfetch>>

\* neither branch: a link that is no http url
BaysideSkip ==
    /\ site = "bayside" /\ cpc = "for" /\ listing_urls # <<>>
    /\ ~BaysideShouldScrape(Head(listing_urls), scraped_urls)
    /\ ~BaysideIsDuplicate(Head(listing_urls), scraped_urls)
    /\ listing_urls' = Tail(listing_urls)
    /\ ev' = "skip"
    /\ UNCHANGED <<storeRest, property_listings, committed, rpemx_property_listings,
                   MAX_LISTINGS, cpc, base_url, current_page, total_listings,
                   scraped_urls, all_listings_data, outcome, lastFetch, nfetch, stop>>

\* the for loop is through the list
BaysideForEnds ==
    /\ site = "bayside" /\ cpc = "for" /\ listing_urls = <<>>
    /\ cpc' = "next"
    /\ ev' = "for_end"
    /\ UNCHANGED <<storeRest, property_listings, committed, rpemx_property_listings,
                   MAX_LISTINGS, base_url, current_page, listing_urls, total_listings,
                   scraped_urls, all_listings_data, outcome, lastFetch, nfetch, stop>>

\* if base_url: base_url = get_next_page_url(base_url)
BaysideNextPage(p) ==
    /\ site = "bayside" /\ cpc = "next" /\ base_url # NoPage
    /\ base_url' = p
    /\ cpc' = "while"
    /\ ev' = "next"
    /\ UNCHANGED <<storeRest, property_listings, committed, rpemx_property_listings,
                   MAX_LISTINGS, current_page, listing_urls, total_listings,
                   scraped_urls, all_listings_data, outcome, lastFetch, nfetch, stop>>

\* if base_url: is false
BaysideNoNextPage ==
    /\ site = "bayside" /\ cpc = "next" /\ base_url = NoPage
    /\ cpc' = "while"
    /\ ev' = "no_next"
    /\ UNCHANGED <<storeRest, property_listings, committed, rpemx_property_listings,
                   MAX_LISTINGS, base_url, current_page, listing_urls, total_listings,
                   scraped_urls, all_listings_data, outcome, lastFetch, nfetch, stop>>

\* KeyboardInterrupt inside the try block of main(), either scraper
CrawlInterrupt ==
    /\ cpc \in {"while", "for", "next"}
    /\ cpc' = "finally"
    /\ ev' = "interrupt"
    /\ stop' = "interrupted"
    /\ UNCHANGED <<storeRest, property_listings, committed, rpemx_property_listings,
                   MAX_LISTINGS, base_url, current_page, listing_urls, total_listings,
                   scraped_urls, all_listings_data, outcome, lastFetch, nfetch>>

\* finally: save_to_database(all_listings_data) commits
BaysideFinallySave ==
    /\ site = "bayside" /\ cpc = "finally" /\ all_listings_data # <<>>
    /\ committed' = BaysideSaveAll(committed, all_listings_data)
    /\ property_listings' = committed'
    /\ cpc' = "done"
    /\ outcome' = Ended(outcome)
    /\ ev' = "saved"
    /\ UNCHANGED <<storeRest, rpemx_property_listings, MAX_LISTINGS, base_url,
                   current_page, listing_urls, total_listings, scraped_urls,
                   all_listings_data, lastFetch, nfetch, stop>>

\* finally: a statement of save_to_database raises, the batch is rolled back
BaysideFinallySaveFails ==
    /\ site = "bayside" /\ cpc = "finally" /\ all_listings_data # <<>>
    /\ cpc' = "done"
    /\ outcome' = Ended(outcome)
    /\ ev' = "save_failed"
    /\ UNCHANGED <<storeRest, property_listings, committed, rpemx_property_listings,
                   MAX_LISTINGS, base_url, current_page, listing_urls, total_listings,
                   scraped_urls, all_listings_data, lastFetch, nfetch, stop>>

\* finally: save_to_database cannot connect and raises
BaysideFinallyConnectFails ==
    /\ site = "bayside" /\ cpc = "finally" /\ all_listings_data # <<>>
    /\ cpc' = "done"
    /\ outcome' = "raised"
    /\ ev' = "save_raised"
    /\ UNCHANGED <<storeRest, property_listings, committed, rpemx_property_listings,
                   MAX_LISTINGS, base_url, current_page, listing_urls, total_listings,
                   scraped_urls, all_listings_data, lastFetch, nfetch, stop>>

\* finally: nothing was collected
BaysideFinallyNothing ==
    /\ site = "bayside" /\ cpc = "finally" /\ all_listings_data = <<>>
    /\ cpc' = "done"
    /\ outcome' = Ended(outcome)
    /\ ev' = "nothing_to_save"
    /\ UNCHANGED <<storeRest, property_listings, committed, rpemx_property_listings,
                   MAX_LISTINGS, base_url, current_page, listing_urls, total_listings,
                   scraped_urls, all_listings_data, lastFetch, nfetch, stop>>

\* ---- rpemx main()
\* listing_urls = get_listing_urls_from_api(current_page), not empty
RpemxGetListingUrls(urls) ==
    /\ site = "rpemx" /\ cpc = "while"
    /\ RpemxLoopGoesOn(total_listings, MAX_LISTINGS)
    /\ current_page <= MaxPage
    /\ urls # <<>>
    /\ listing_urls' = urls
    /\ cpc' = "for"
    /\ ev' = "index"
    /\ UNCHANGED <<storeRest, property_listings, committed, rpemx_property_listings,
                   MAX_LISTINGS, base_url, current_page, total_listings, scraped_urls,
                   all_listings_data, outcome, lastFetch, nfetch, stop>>

\* get_listing_urls_from_api returns []: the page has no items, or the request
\* failed and the handler of line 387 returned []; main() breaks
RpemxNoListings(failed) ==
    /\ site = "rpemx" /\ cpc = "while"
    /\ RpemxLoopGoesOn(total_listings, MAX_LISTINGS)
    /\ cpc' = "finally"
    /\ ev' = IF failed THEN "api_failed" ELSE "empty_page"
    /\ stop' = "done"
    /\ UNCHANGED <<storeRest, property_listings, committed, rpemx_property_listings,
                   MAX_LISTINGS, base_url, current_page, listing_urls, total_listings,
                   scraped_urls, all_listings_data, outcome, lastFetch, nfetch>>

RpemxLoopExit ==
    /\ site = "rpemx" /\ cpc = "while"
    /\ ~RpemxLoopGoesOn(total_listings, MAX_LISTINGS)
    /\ cpc' = "finally"
    /\ ev' = "exit"
    /\ stop' = "cap"
    /\ UNCHANGED <<storeRest, property_listings, committed, rpemx_property_listings,
                   MAX_LISTINGS, base_url, current_page, listing_urls, total_listings,
                   scraped_urls, all_listings_data, outcome, lastFetch, nfetch>>

\* the if branch; scrape_listing returns and save_to_database(listing_data)
\* commits ("committed"), rolls back ("rolled_back") or cannot connect and
\* raises ("raised"); dbOk: the query of url_exists_in_database answers
RpemxScrapeOk(data, dbOk, saved) ==
    /\ site = "rpemx" /\ cpc = "for" /\ listing_urls # <<>>
    /\ RpemxShouldScrape(Head(listing_urls), scraped_urls,
           dbOk /\ UrlExists(rpemx_property_listings, Head(listing_urls)))
    /\ data.url = Head(listing_urls)
    /\ total_listings' = total_listings + 1
    /\ nfetch' = nfetch + 1
    /\ lastFetch' = Head(listing_urls)
    /\ rpemx_property_listings' =
           IF saved = "committed" THEN RpemxUpsert(rpemx_property_listings, data)
           ELSE rpemx_property_listings
    /\ scraped_urls' =
           IF saved = "raised" THEN scraped_urls
           ELSE scraped_urls \cup {Head(listing_urls)}
    /\ listing_urls' = Tail(listing_urls)
    /\ cpc' = IF CapReached(total_listings', MAX_LISTINGS) THEN "next" ELSE "for"
    /\ ev' = CASE saved = "committed" -> "fetch_saved"
               [] saved = "rolled_back" -> "fetch_save_failed"
               [] OTHER -> "fetch_save_raised"
    /\ UNCHANGED <<storeRest, property_listings, committed, MAX_LISTINGS, base_url,
                   current_page, all_listings_data, outcome, stop>>

\* the if branch; scrape_listing raises
RpemxScrapeFails(dbOk) ==
    /\ site = "rpemx" /\ cpc = "for" /\ listing_urls # <<>>
    /\ RpemxShouldScrape(Head(listing_urls), scraped_urls,
           dbOk /\ UrlExists(rpemx_property_listings, Head(listing_urls)))
    /\ total_listings' = total_listings + 1
    /\ nfetch' = nfetch + 1
    /\ lastFetch' = Head(listing_urls)
    /\ listing_urls' = Tail(listing_urls)
    /\ cpc' = IF CapReached(total_listings', MAX_LISTINGS) THEN "next" ELSE "for"
    /\ ev' = "fetch_failed"
    /\ UNCHANGED <<storeRest, property_listings, committed, rpemx_property_listings,
                   MAX_LISTINGS, base_url, current_page, scraped_urls,
                   all_listings_data, outcome, stop>>

\* the else branch: the url is in scraped_urls or in the table
RpemxSkip(dbOk) ==
    /\ site = "rpemx" /\ cpc = "for" /\ listing_urls # <<>>
    /\ ~RpemxShouldScrape(Head(listing_urls), scraped_urls,
           dbOk /\ UrlExists(rpemx_property_listings, Head(listing_urls)))
    /\ listing_urls' = Tail(listing_urls)
    /\ ev' = IF Head(listing_urls) \in scraped_urls THEN "skip_seen" ELSE "skip_stored"
    /\ UNCHANGED <<storeRest, property_listings, committed, rpemx_property_listings,
                   MAX_LISTINGS, cpc, base_url, current_page, total_listings,
                   scraped_urls, all_listings_data, outcome, lastFetch, nfetch, stop>>

\* url_exists_in_database cannot connect: its handler returns False, its
\* finally block reads cursor, which was never bound, and raises
RpemxExistsRaises ==
    /\ site = "rpemx" /\ cpc = "for" /\ listing_urls # <<>>
    /\ Head(listing_urls) \notin scraped_urls
    /\ cpc' = "finally"
    /\ outcome' = "raising"
    /\ ev' = "exists_raised"
    /\ stop' = "error"
    /\ UNCHANGED <<storeRest, property_listings, committed, rpemx_property_listings,
                   MAX_LISTINGS, base_url, current_page, listing_urls, total_listings,
                   scraped_urls, all_listings_data, lastFetch, nfetch>>

RpemxForEnds ==
    /\ site = "rpemx" /\ cpc = "for" /\ listing_urls = <<>>
    /\ cpc' = "next"
    /\ ev' = "for_end"
    /\ UNCHANGED <<storeRest, property_listings, committed, rpemx_property_listings,
                   MAX_LISTINGS, base_url, current_page, listing_urls, total_listings,
                   scraped_urls, all_listings_data, outcome, lastFetch, nfetch, stop>>

\* current_page += 1
RpemxNextPage ==
    /\ site = "rpemx" /\ cpc = "next"
    /\ current_page' = current_page + 1
    /\ cpc' = "while"
    /\ ev' = "next"
    /\ UNCHANGED <<storeRest, property_listings, committed, rpemx_property_listings,
                   MAX_LISTINGS, base_url, listing_urls, total_listings,
                   scraped_urls, all_listings_data, outcome, lastFetch, nfetch, stop>>

RpemxFinally ==
    /\ site = "rpemx" /\ cpc = "finally"
    /\ cpc' = "done"
    /\ outcome' = Ended(outcome)
    /\ ev' = "end"
    /\ UNCHANGED <<storeRest, property_listings, committed, rpemx_property_listings,
                   MAX_LISTINGS, base_url, current_page, listing_urls, total_listings,
                   scraped_urls, all_listings_data, lastFetch, nfetch, stop>>

SaveResults == {"committed", "rolled_back", "raised"}

CrawlNext ==
    \/ \E urls \in SeqsUpTo(Hrefs, MaxPageLen) : BaysideGetListingUrls(urls)
    \/ BaysideIndexFails
    \/ BaysideLoopExit
    \/ \E data \in Listings : BaysideScrapeOk(data)
    \/ BaysideScrapeFails
    \/ BaysideDuplicate
    \/ BaysideSkip
    \/ BaysideForEnds
    \/ \E p \in Pages \cup {NoPage} : BaysideNextPage(p)
    \/ BaysideNoNextPage
    \/ CrawlInterrupt
    \/ BaysideFinallySave
    \/ BaysideFinallySaveFails
    \/ BaysideFinallyConnectFails
    \/ BaysideFinallyNothing
    \/ \E urls \in SeqsUpTo(URLs, MaxPageLen) : RpemxGetListingUrls(urls)
    \/ \E failed \in BOOLEAN : RpemxNoListings(failed)
    \/ RpemxLoopExit
    \/ \E data \in Listings, dbOk \in BOOLEAN, saved \in SaveResults :
          RpemxScrapeOk(data, dbOk, saved)
    \/ \E dbOk \in BOOLEAN : RpemxScrapeFails(dbOk)
    \/ \E dbOk \in BOOLEAN : RpemxSkip(dbOk)
    \/ RpemxExistsRaises
    \/ RpemxForEnds
    \/ RpemxNextPage
    \/ RpemxFinally

SpecCrawl == CrawlInit /\ [][CrawlNext]_vars

\* ---- the error budget of bayside main()
\* MAX_ERRORS = 5, a local of main() that no statement reads
MAX_ERRORS == 5

\* error_count = 0, a local of main() that no statement assigns again
error_count == 0

\* The per-listing failures of the run so far: total_listings is incremented
\* before every scrape_listing call and scraped_urls gains the url (a new one,
\* by the guard of the branch) when the try body runs through.
Failures == total_listings - Cardinality(scraped_urls)

\* A run whose cap leaves room for one request beyond the budget, next to the
\* default cap.
BudgetInit == CrawlStart({DefaultMaxListings, MAX_ERRORS + 1}) /\ WebIdle

SpecBudget == BudgetInit /\ [][CrawlNext]_vars

\* ---- bayside main() on a site that does not change during the run
\* What get_listing_urls and get_next_page_url read from each index page.
IndexSites ==
    [Pages -> [urls : SeqsUpTo(Hrefs, MaxPageLen), next : Pages \cup {NoPage}]]

WalkInit ==
    /\ CrawlStart(1..MaxCap)
    /\ site = "bayside"
    /\ index_pages \in IndexSites

\* listing_urls = get_listing_urls(base_url)
WalkGetListingUrls ==
    /\ base_url # NoPage
    /\ BaysideGetListingUrls(index_pages[base_url].urls)

\* base_url = get_next_page_url(base_url)
WalkNextPage ==
    /\ base_url # NoPage
    /\ BaysideNextPage(index_pages[base_url].next)

WalkNext ==
    \/ WalkGetListingUrls
    \/ BaysideIndexFails
    \/ BaysideLoopExit
    \/ \E data \in Listings : BaysideScrapeOk(data)
    \/ BaysideScrapeFails
    \/ BaysideDuplicate
    \/ BaysideSkip
    \/ BaysideForEnds
    \/ WalkNextPage
    \/ BaysideNoNextPage
    \/ CrawlInterrupt
    \/ BaysideFinallySave
    \/ BaysideFinallySaveFails
    \/ BaysideFinallyConnectFails
    \/ BaysideFinallyNothing

\* main() is a running process: it takes its next step
SpecWalk == WalkInit /\ [][WalkNext]_vars /\ WF_vars(WalkNext)

\* ------------------------------------------------------ scrape_listing
\* A parsed page is what the selectors of scrape_listing find in it: the set
\* of elements that are there, and the items of the image carousel.  An element
\* whose text the extractor's pattern does not match counts as not there when
\* the code then sets no key (price), and as there otherwise.
BaysideElements ==
    {"h1.property-title", "listing_id", "price", "type_status",
     "addr city", "addr area", "addr state/county", "addr country", "addr zip",
     "bedrooms", "bathrooms", "property size", "land size", "parking spot number",
     "collapseDesc", "agent_details", "agent_phone_class", "agent_email_class",
     "agent_position", "iframe virtualtour", "googleMap_shortcode_class"}

RpemxElements ==
    {"h1.entry-title", "price_area", "property_categs",
     "Property Id", "Bedrooms", "Bathrooms", "Size",
     "googleMap_shortcode", "wpestate_property_description",
     "agent_details", "agent_phone_class", "agent_email_class"}

ElementsOf(s) == IF s = "bayside" THEN BaysideElements ELSE RpemxElements

\* An image source: an inline data URI, or one of the urls 1..MaxImg; NoAttr
\* when the attribute is missing or empty.
DataUri == 0
NoAttr == -1
ImgSrcs == {DataUri} \cup (1..MaxImg)

\* One carousel item.  bayside: src is the src of its img, lazy its
\* data-lazy-load-src when the item is a lazy-load-item.  rpemx: lazy is
\* data-lzl-bg of the item, src the url of its background-image style.
Items == [src : ImgSrcs \cup {NoAttr}, lazy : ImgSrcs \cup {NoAttr}]

\* the pages: few elements there or few elements missing, and no carousel; or
\* no element and a carousel of up to MaxItems items
Soups(s) ==
    [elems : {E \in SUBSET ElementsOf(s) :
                 \/ Cardinality(E) <= MaxElems
                 \/ Cardinality(ElementsOf(s) \ E) <= MaxElems},
     carousel : {FALSE}, items : {<<>>}]
    \cup [elems : {{}}, carousel : {TRUE}, items : SeqsUpTo(Items, MaxItems)]

\* required_fields of bayside scrape_listing; the spec's required-field set
required_fields ==
    {"property_id", "title", "status", "price", "currency", "description",
     "area", "city", "state", "country", "interior_space", "land_size",
     "bedrooms", "bathrooms", "parking_spaces", "agent_name", "agent_phone",
     "agent_email", "latitude", "longitude"}

feature_flags ==
    {"appliances", "beach_access", "close_to_airport", "close_to_beach",
     "electricity", "furnished", "gated_community", "high_rental_revenue",
     "investment_opportunity", "storage_area", "sun_deck", "swimming_pool",
     "terrace", "unique_location", "water"}

\* a string taken from the page
Text == "text"

\* data[k] = v
Assign(d, k, v) == [x \in DOMAIN d \cup {k} |-> IF x = k THEN v ELSE d[x]]

\* the assignments kvs = <<k1, v1>>, <<k2, v2>>, ... made in that order
RECURSIVE AssignAll(_, _)
AssignAll(d, kvs) ==
    IF kvs = <<>> THEN d
    ELSE AssignAll(Assign(d, Head(kvs)[1], Head(kvs)[2]), Tail(kvs))

\* x = elem.text.strip() if elem else ''
TextOrEmpty(E, e) == IF e \in E THEN Text ELSE ""

\* the assignments made only when the element is there
IfThere(E, e, kvs) == IF e \in E THEN kvs ELSE <<>>

\* data[k] = v for every k of K
AssignEach(d, K, v) == [x \in DOMAIN d \cup K |-> IF x \in K THEN v ELSE d[x]]

\* x in all_images
InList(all_images, x) == \E i \in 1..Len(all_images) : all_images[i] = x

\* ---- bayside scrape_listing
\* for img in carousel.select('.item img'): if img.get('src'): append
RECURSIVE BaysideDirectImages(_)
BaysideDirectImages(items) ==
    IF items = <<>> THEN <<>>
    ELSE (IF Head(items).src # NoAttr THEN <<Head(items).src>> ELSE <<>>)
             \o BaysideDirectImages(Tail(items))

\* for img in carousel.select('.item.lazy-load-item img'):
\*     if lazy_src and lazy_src not in all_images: append
RECURSIVE BaysideLazyImages(_, _)
BaysideLazyImages(all_images, items) ==
    IF items = <<>> THEN all_images
    ELSE BaysideLazyImages(
             IF Head(items).lazy # NoAttr /\ ~InList(all_images, Head(items).lazy)
             THEN Append(all_images, Head(items).lazy)
             ELSE all_images,
             Tail(items))

BaysideAllImages(items) == BaysideLazyImages(BaysideDirectImages(items), items)

\* The keys scrape_listing sets before the required fields are filled in.
\* Left out are keys no claim reads and whose presence depends on the text of
\* an element: half_baths, living_rooms ..., features_list, agent_photo,
\* form_*.
BaysideExtract(page) ==
    LET E == page.elems IN
    AssignAll(
        AssignEach(<<>>, feature_flags, FALSE),
        <<<<"url", Text>>, <<"scrape_date", Text>>,
          <<"title", TextOrEmpty(E, "h1.property-title")>>>>
        \o IfThere(E, "listing_id", <<<<"property_id", Text>>>>)
        \o IfThere(E, "price", <<<<"price", Text>>, <<"currency", Text>>>>)
        \o IfThere(E, "type_status", <<<<"property_type", Text>>, <<"status", Text>>>>)
        \o IfThere(E, "addr city", <<<<"city", Text>>>>)
        \o IfThere(E, "addr area", <<<<"area", Text>>>>)
        \o IfThere(E, "addr state/county", <<<<"state", Text>>>>)
        \o IfThere(E, "addr country", <<<<"country", Text>>>>)
        \o IfThere(E, "addr zip", <<<<"zip", Text>>>>)
        \o IfThere(E, "bedrooms", <<<<"bedrooms", Text>>>>)
        \o IfThere(E, "bathrooms", <<<<"bathrooms", Text>>>>)
        \o IfThere(E, "property size", <<<<"interior_space", Text>>>>)
        \o IfThere(E, "land size", <<<<"land_size", Text>>>>)
        \o IfThere(E, "parking spot number", <<<<"parking_spaces", Text>>>>)
        \o <<<<"description", TextOrEmpty(E, "collapseDesc")>>,
             <<"agent_name", TextOrEmpty(E, "agent_details")>>,
             <<"agent_phone", TextOrEmpty(E, "agent_phone_class")>>,
             <<"agent_email", TextOrEmpty(E, "agent_email_class")>>,
             <<"agent_bio", TextOrEmpty(E, "agent_position")>>>>
        \o (IF page.carousel
            THEN <<<<"main_image", IF page.items = <<>> THEN "" ELSE Text>>,
                   <<"all_images", BaysideAllImages(page.items)>>,
                   <<"image_captions", [i \in 1..Len(page.items) |-> Text]>>>>
            ELSE <<>>)
        \o <<<<"virtual_tour_url", TextOrEmpty(E, "iframe virtualtour")>>>>
        \o IfThere(E, "googleMap_shortcode_class",
               <<<<"latitude", Text>>, <<"longitude", Text>>, <<"map_zoom", Text>>>>))

\* for field in required_fields: if field not in data: data[field] = ''
FillRequired(d) ==
    [k \in DOMAIN d \cup required_fields |-> IF k \in DOMAIN d THEN d[k] ELSE ""]

\* bayside scrape_listing, from the parsed page to the return
BaysideScrape(page) == FillRequired(BaysideExtract(page))

\* ---- rpemx scrape_listing
\* img_url = item.get('data-lzl-bg'), or the url of the background-image style
RpemxItemUrl(item) == IF item.lazy # NoAttr THEN item.lazy ELSE item.src

\* img_url.startswith('data:image')
IsDataUri(img_url) == img_url = DataUri

\* if img_url and img_url not in all_images and not img_url.startswith('data:image')
RECURSIVE RpemxCollectImages(_, _)
RpemxCollectImages(all_images, items) ==
    IF items = <<>> THEN all_images
    ELSE RpemxCollectImages(
             IF /\ RpemxItemUrl(Head(items)) # NoAttr
                /\ ~InList(all_images, RpemxItemUrl(Head(items)))
                /\ ~IsDataUri(RpemxItemUrl(Head(items)))
             THEN Append(all_images, RpemxItemUrl(Head(items)))
             ELSE all_images,
             Tail(items))

\* list(dict.fromkeys(all_images)): the first occurrence of each, in order
RECURSIVE FromKeys(_)
FromKeys(l) ==
    IF l = <<>> THEN <<>>
    ELSE LET front == FromKeys(SubSeq(l, 1, Len(l) - 1)) IN
         IF InList(front, l[Len(l)]) THEN front ELSE Append(front, l[Len(l)])

RpemxAllImages(items) == FromKeys(RpemxCollectImages(<<>>, items))

\* rpemx scrape_listing, from the parsed page to the return: no key is filled
\* in afterwards.  Left out: size_m2 and features, which no claim reads.
RpemxScrape(page) ==
    LET E == page.elems IN
    AssignAll(<<>>,
        <<<<"url", Text>>, <<"scrape_date", Text>>,
          <<"title", TextOrEmpty(E, "h1.entry-title")>>>>
        \o IfThere(E, "price_area", <<<<"price", Text>>, <<"currency", Text>>>>)
        \o IfThere(E, "property_categs", <<<<"city", Text>>, <<"area", Text>>>>)
        \o IfThere(E, "Property Id", <<<<"property_id", Text>>>>)
        \o IfThere(E, "Bedrooms", <<<<"bedrooms", Text>>>>)
        \o IfThere(E, "Bathrooms", <<<<"bathrooms", Text>>>>)
        \o (IF page.carousel /\ RpemxAllImages(page.items) # <<>>
            THEN <<<<"main_image", Text>>,
                   <<"all_images", RpemxAllImages(page.items)>>,
                   <<"image_captions", <<>>>>>>
            ELSE <<>>)
        \o IfThere(E, "googleMap_shortcode",
               <<<<"latitude", Text>>, <<"longitude", Text>>>>)
        \o <<<<"description", TextOrEmpty(E, "wpestate_property_description")>>,
             <<"agent_name", TextOrEmpty(E, "agent_details")>>,
             <<"agent_phone", TextOrEmpty(E, "agent_phone_class")>>,
             <<"agent_email", TextOrEmpty(E, "agent_email_class")>>>>)

\* ---- scrape_listing applied to a page
ExtractInit ==
    /\ site \in Sites
    /\ property_listings = <<>>
    /\ committed = <<>>
    /\ rpemx_property_listings = <<>>
    /\ spc = "idle"
    /\ nbatch = 0
    /\ op = "none"
    /\ lastUp = NoUp
    /\ CrawlIdle
    /\ ApiIdle
    /\ soup \in Soups(site)
    /\ listing_data = NoData
    /\ WebIdle

BaysideScrapeListing ==
    /\ site = "bayside" /\ soup # NoSoup /\ listing_data = NoData
    /\ listing_data' = BaysideScrape(soup)
    /\ UNCHANGED <<storeVars, crawlVars, apiVars, webVars, soup>>

RpemxScrapeListing ==
    /\ site = "rpemx" /\ soup # NoSoup /\ listing_data = NoData
    /\ listing_data' = RpemxScrape(soup)
    /\ UNCHANGED <<storeVars, crawlVars, apiVars, webVars, soup>>

ExtractNext ==
    \/ BaysideScrapeListing
    \/ RpemxScrapeListing

SpecExtract == ExtractInit /\ [][ExtractNext]_vars

\* ----------------------------------------------------------- front-end
\* max_listings: Optional[int] of POST /scrape; 0 stands for None (and is as
\* falsy as None in "if max_listings:")
Tasks == [kind : {"bayside"}, max_listings : 0..MaxCap]
             \cup [kind : {"sequence"}, max_listings : {0}]

\* bayside_scraper has no module attribute all_listings_data: the name is a
\* local of main() (bayside_scraper.py line 487), so
\* len(bayside_scraper.all_listings_data) raises AttributeError
HasAllListingsData == FALSE

\* rpemx_scraper has no module attribute total_listings either (a local of
\* main(), rpemx_scraper.py line 392): hasattr(...) is false
HasTotalListings == FALSE

\* run_bayside_scraper, up to the call of main()
BaysideBegin(st) ==
    [st EXCEPT !.bayside_running = TRUE, !.is_running = TRUE,
               !.error_message = NoError]

\* if max_listings: bayside_scraper.MAX_LISTINGS = max_listings
CapAfterStart(cap, max_listings) ==
    IF max_listings # 0 THEN max_listings ELSE cap

\* whether run_bayside_scraper raises to its caller: main() raised, or the
\* read of all_listings_data did; the handler of line 47 re-raises both
BaysideRaises(result) ==
    result = "raised" \/ ~HasAllListingsData

\* run_bayside_scraper, from the return of main() on; n: listings collected
BaysideEnd(st, result, n, t) ==
    LET off == [st EXCEPT !.bayside_running = FALSE, !.is_running = FALSE] IN
    IF result = "raised"
    THEN [off EXCEPT !.error_message = <<"Bayside scraper error", "main">>]
    ELSE IF ~HasAllListingsData
    THEN [off EXCEPT !.bayside_last_run = t, !.last_run = t,
                     !.error_message = <<"Bayside scraper error", "AttributeError">>]
    ELSE [off EXCEPT !.bayside_last_run = t, !.last_run = t,
                     !.bayside_total = n, !.total_listings = n]

\* what str(e) is in run_sequence when run_bayside_scraper raised
BaysideCause(result) == IF result = "raised" THEN "main" ELSE "AttributeError"

\* run_rpemx_scraper, whole
RpemxRun(st, result, n, t) ==
    IF result = "raised"
    THEN [st EXCEPT !.rpemx_running = FALSE, !.is_running = FALSE,
                    !.error_message = <<"RPEMX scraper error", "main">>]
    ELSE [st EXCEPT !.rpemx_running = FALSE, !.is_running = FALSE,
                    !.rpemx_last_run = t, !.last_run = t,
                    !.rpemx_total = IF HasTotalListings THEN n ELSE 0,
                    !.total_listings = @ + (IF HasTotalListings THEN n ELSE 0)]

\* mutant: run_sequence goes on to the rpemx crawl whatever the first did
SequenceRunsRpemxRegardless(raised, st) == TRUE

\* run_sequence: the call of run_rpemx_scraper is reached when
\* run_bayside_scraper did not raise, and made when error_message is empty
SequenceRunsRpemx(raised, st) ==
    ~raised /\ st.error_message = NoError

\* run_sequence, from the return of bayside main() on
SequenceEnd(st, bres, rres, n, t) ==
    LET s1 == BaysideEnd(st, bres, n, t) IN
    IF SequenceRunsRpemx(BaysideRaises(bres), s1)
    THEN LET s2 == RpemxRun(s1, rres, n, t) IN
         IF rres = "raised" THEN [s2 EXCEPT !.error_message = <<"main">>] ELSE s2
    ELSE IF BaysideRaises(bres)
    THEN [s1 EXCEPT !.error_message = <<BaysideCause(bres)>>]
    ELSE s1

ApiInit ==
    /\ site = "bayside"
    /\ property_listings = <<>>
    /\ committed = <<>>
    /\ rpemx_property_listings = <<>>
    /\ spc = "idle"
    /\ nbatch = 0
    /\ op = "none"
    /\ lastUp = NoUp
    /\ CrawlIdle
    /\ ApiIdle
    /\ PageIdle
    /\ WebIdle

crawlRest == <<cpc, base_url, current_page, listing_urls, total_listings,
               scraped_urls, all_listings_data, outcome, ev, lastFetch, nfetch, stop>>

\* POST /scrape.  The handler runs on the event loop, and so does a background
\* task: run_bayside_scraper is a coroutine that never awaits anything that
\* suspends, so no handler runs between its first and its last statement.
StartScraper(max_listings) ==
    /\ running = NoTask
    /\ Len(pending) < MaxPending
    /\ IF scraper_status.is_running
       THEN /\ response' = "409"
            /\ UNCHANGED pending
       ELSE /\ response' = "started"
            /\ pending' = Append(pending,
                   [kind |-> "bayside", max_listings |-> max_listings])
    /\ UNCHANGED <<webVars, pageVars, storeVars, crawlVars, scraper_status, running, now, seqlog>>

\* POST /scrape/sequence
StartSequence ==
    /\ running = NoTask
    /\ Len(pending) < MaxPending
    /\ IF \/ scraper_status.is_running
          \/ scraper_status.bayside_running
          \/ scraper_status.rpemx_running
       THEN /\ response' = "409"
            /\ UNCHANGED pending
       ELSE /\ response' = "started"
            /\ pending' = Append(pending, [kind |-> "sequence", max_listings |-> 0])
    /\ UNCHANGED <<webVars, pageVars, storeVars, crawlVars, scraper_status, running, now, seqlog>>

\* The response is sent and the background task begins: run_bayside_scraper
\* (alone or as the first half of run_sequence) up to the call of main().
TaskStart ==
    /\ running = NoTask
    /\ pending # <<>>
    /\ now < MaxRuns
    /\ running' = Head(pending)
    /\ pending' = Tail(pending)
    /\ scraper_status' = BaysideBegin(scraper_status)
    /\ MAX_LISTINGS' = CapAfterStart(MAX_LISTINGS, Head(pending).max_listings)
    /\ now' = now + 1
    /\ UNCHANGED <<webVars, pageVars, storeVars, crawlRest, response, seqlog>>

\* bayside main() returns or raises: the rest of run_bayside_scraper
BaysideTaskEnds(result, n) ==
    /\ running # NoTask /\ running.kind = "bayside"
    /\ scraper_status' = BaysideEnd(scraper_status, result, n, now)
    /\ running' = NoTask
    /\ UNCHANGED <<webVars, pageVars, storeVars, crawlVars, pending, now, response, seqlog>>

\* bayside main() returns or raises: the rest of run_sequence, the rpemx crawl
\* (which returns or raises) included when it is started
SequenceTaskEnds(bres, rres, n) ==
    /\ running # NoTask /\ running.kind = "sequence"
    /\ scraper_status' = SequenceEnd(scraper_status, bres, rres, n, now)
    /\ seqlog' = [bayside |-> bres,
                  rpemx_started |->
                      SequenceRunsRpemx(BaysideRaises(bres),
                                        BaysideEnd(scraper_status, bres, n, now))]
    /\ running' = NoTask
    /\ UNCHANGED <<webVars, pageVars, storeVars, crawlVars, pending, now, response>>

MainResults == {"returned", "raised"}

ApiNext ==
    \/ \E max_listings \in 0..MaxCap : StartScraper(max_listings)
    \/ StartSequence
    \/ TaskStart
    \/ \E result \in MainResults, n \in 0..MaxCap : BaysideTaskEnds(result, n)
    \/ \E bres \in MainResults, rres \in MainResults, n \in 0..MaxCap :
          SequenceTaskEnds(bres, rres, n)

SpecApi == ApiInit /\ [][ApiNext]_vars

\* ------------------------------------------------------------- claims
\* The table the running program writes.
StoreTable == IF site = "bayside" THEN property_listings ELSE rpemx_property_listings

\* The rows that hold a listing: its property_id and its url.
RowsOf(T, data) ==
    {i \in 1..Len(T) : T[i].property_id = data.property_id /\ T[i].url = data.url}

\* The rows the write of a listing touched: those its lookup key selects.
RowsTouched(T, data) ==
    IF site = "bayside" THEN BaysideSelect(T, data) ELSE RpemxSelect(T, data)

HasColumn(row, c) == c \in DOMAIN row

C2_IsNewPreserved ==
    [][(site = "bayside" /\ op' = "upsert") =>
          /\ Len(property_listings') >= Len(property_listings)
          /\ \A i \in 1..Len(property_listings) :
                property_listings'[i].isnew = property_listings[i].isnew
          /\ \A i \in (Len(property_listings) + 1)..Len(property_listings') :
                property_listings'[i].isnew]_vars

\* C2 witness: the batch of the example: a stored row whose isnew is false was
\* updated and kept it, next to a row inserted with isnew = true.
C2_Witness ==
    /\ site = "bayside" /\ lastUp # NoUp /\ lastUp.before # NoRow
    /\ ~lastUp.before.isnew
    /\ \E i \in BaysideSelect(property_listings, lastUp.listing) :
          ~property_listings[i].isnew
    /\ \E j \in 1..Len(property_listings) : property_listings[j].isnew

C4_MatchingKey ==
    lastUp # NoUp =>
        /\ (lastUp.listing.property_id = EmptyPid /\ lastUp.before # NoRow)
              => lastUp.before.url = lastUp.listing.url
        /\ lastUp.listing.property_id # EmptyPid =>
              Cardinality({i \in 1..Len(StoreTable) :
                  StoreTable[i].property_id = lastUp.listing.property_id}) = 1

\* C5: when the write of one listing of the batch fails, what the batch wrote
\* before it is committed all the same.
C5_BatchFailureIsolated ==
    [][(site = "bayside" /\ op' = "rollback") => committed' = property_listings]_vars

\* C6: a listing page is requested only for a url that is not in scraped_urls.
C6_SeenNeverRefetched ==
    [][(IsFetch(ev') /\ nfetch' # nfetch) => lastFetch' \notin scraped_urls]_vars

\* C6 witness: a url of scraped_urls came again from the enumerator, after a
\* fetch, and was not fetched.
C6_Witness ==
    /\ ev \in {"dup", "skip_seen"}
    /\ nfetch >= 1
    /\ scraped_urls # {}

\* C7: bayside: once a url of scraped_urls came from the index page, no listing
\* page and no index page is requested any more.  rpemx: an API page without
\* items ends the loop with no exception and main() returns; a url of
\* scraped_urls is skipped and the for loop goes on.
C7_CycleStopVsDone ==
    [][/\ (site = "bayside" /\ stop = "cycle") =>
              (~IsFetch(ev') /\ ev' \notin {"index", "next", "index_failed"})
       /\ (site = "rpemx" /\ ev' = "empty_page") =>
              (cpc' = "finally" /\ outcome' = "running" /\ stop' = "done")
       /\ (site = "rpemx" /\ stop = "done" /\ cpc' = "done") => outcome' = "returned"
       /\ (site = "rpemx" /\ ev' = "skip_seen") =>
              (cpc' = "for" /\ outcome' = "running" /\ stop' = "none")]_vars

\* C7 witness: the bayside crawl has ended on a duplicate with a url of the
\* page still unvisited that it would otherwise have scraped.
C7_Witness ==
    /\ site = "bayside" /\ stop = "cycle" /\ cpc = "done"
    /\ listing_urls # <<>>
    /\ BaysideShouldScrape(Head(listing_urls), scraped_urls)

\* C8: a listing page is requested only while total_listings < MAX_LISTINGS,
\* and the number of listing pages requested never exceeds MAX_LISTINGS.
C8_CapRespected ==
    [][(IsFetch(ev') /\ nfetch' # nfetch) =>
          (total_listings < MAX_LISTINGS /\ nfetch' <= MAX_LISTINGS)]_vars

\* C8 witness: the cap was reached by fetches that all failed, with a url the
\* loop would otherwise have scraped still on the list.
C8_Witness ==
    /\ cpc = "done" /\ nfetch = MAX_LISTINGS /\ scraped_urls = {}
    /\ listing_urls # <<>>
    /\ IsHttp(Head(listing_urls))

\* C9: at most one crawl is accepted and not yet finished: a start request
\* handled while an accepted crawl has not finished starts nothing.
C9_OneCrawlAtATime ==
    Len(pending) + (IF running # NoTask THEN 1 ELSE 0) <= 1

\* C10: in sequence mode the rpemx crawl is started only after a bayside crawl
\* whose main() returned, and never after one whose main() raised.
C10_SequenceInOrder ==
    seqlog # NoSeq =>
        /\ seqlog.rpemx_started => seqlog.bayside = "returned"
        /\ seqlog.bayside = "raised" => ~seqlog.rpemx_started

\* C10 witness: a sequence has run, bayside main() raised and the rpemx crawl
\* was not started; the status carries the error.
C10_Witness ==
    /\ seqlog # NoSeq /\ seqlog.bayside = "raised" /\ ~seqlog.rpemx_started
    /\ scraper_status.error_message = <<"main">>
    /\ scraper_status.rpemx_last_run = 0

\* C11: when the bayside run was interrupted with N listings in
\* all_listings_data, N rows are in property_listings (empty at the start of
\* the run) when main() ends.
C11_InterruptFlush ==
    (site = "bayside" /\ stop = "interrupted" /\ cpc = "done") =>
        Len(committed) = Len(all_listings_data)

\* C12: once the failures of the bayside run have reached MAX_ERRORS, no
\* listing page is requested any more and main() does not return normally.
C12_ErrorBudget ==
    [][(site = "bayside" /\ Failures >= MAX_ERRORS) =>
          (nfetch' = nfetch /\ outcome' # "returned")]_vars

\* C13: a step in which scrape_listing raises leaves main() running inside its
\* loops: the for loop is at the next url of the list (or left by the cap
\* test), nothing collected or stored so far is lost, and when the bayside
\* batch write at the end of the run commits, every collected listing has its
\* row.
C13_FailureCaught ==
    [][/\ ev' = "fetch_failed" =>
              /\ outcome' = "running" /\ stop' = stop
              /\ cpc' = (IF CapReached(total_listings', MAX_LISTINGS)
                         THEN "next" ELSE "for")
              /\ listing_urls' = Tail(listing_urls)
              /\ all_listings_data' = all_listings_data
              /\ StoreTable' = StoreTable
       /\ (site = "bayside" /\ ev' = "saved") =>
              \A i \in 1..Len(all_listings_data) :
                  BaysideSelect(committed', all_listings_data[i]) # {}]_vars

\* C13 witness: a bayside run has ended and its batch write committed; the
\* last listing page it requested failed, after listings had been collected.
C13_Witness ==
    /\ site = "bayside" /\ cpc = "done" /\ ev = "saved"
    /\ all_listings_data # <<>>
    /\ lastFetch # NonHttp /\ lastFetch \notin scraped_urls
    /\ \A i \in 1..Len(all_listings_data) :
          BaysideSelect(property_listings, all_listings_data[i]) # {}

\* C14: when url_exists_in_database cannot reach the store, main() goes on:
\* it is not left with an exception.
C14_FailOpen ==
    (site = "rpemx" /\ ev = "exists_raised") => outcome = "running"

\* C15: when the request for the index page or for the API page fails, main()
\* ends with an exception.
C15_EnumeratorFailureIsFatal ==
    ev \in {"index_failed", "api_failed"} => outcome = "raising"

\* C16: a background task that ends with an error message leaves last_run and
\* total_listings as they were.
C16_FailedRunKeepsLastRun ==
    [][(running # NoTask /\ running' = NoTask
            /\ scraper_status'.error_message # NoError) =>
          /\ scraper_status'.last_run = scraper_status.last_run
          /\ scraper_status'.total_listings = scraper_status.total_listings]_vars

\* C19: when a bayside task ends and main() did not raise, the status has no
\* error message and last_run is the time of that end.
C19_BaysideRunReported ==
    [][(running # NoTask /\ running.kind = "bayside" /\ running' = NoTask
            /\ scraper_status'.error_message # <<"Bayside scraper error", "main">>) =>
          /\ scraper_status'.error_message = NoError
          /\ scraper_status'.last_run = now]_vars

\* C20: a sequence whose bayside main() returned has started the rpemx crawl
\* when it ends.
C20_SequenceStartsRpemx ==
    (seqlog # NoSeq /\ seqlog.bayside = "returned") => seqlog.rpemx_started

\* what the page must have for scrape_listing to find a value for the field
ElementFor(s, field) ==
    IF s = "bayside"
    THEN CASE field = "property_id" -> {"listing_id"}
           [] field = "title" -> {"h1.property-title"}
           [] field = "status" -> {"type_status"}
           [] field \in {"price", "currency"} -> {"price"}
           [] field = "description" -> {"collapseDesc"}
           [] field = "area" -> {"addr area"}
           [] field = "city" -> {"addr city"}
           [] field = "state" -> {"addr state/county"}
           [] field = "country" -> {"addr country"}
           [] field = "interior_space" -> {"property size"}
           [] field = "land_size" -> {"land size"}
           [] field = "bedrooms" -> {"bedrooms"}
           [] field = "bathrooms" -> {"bathrooms"}
           [] field = "parking_spaces" -> {"parking spot number"}
           [] field = "agent_name" -> {"agent_details"}
           [] field = "agent_phone" -> {"agent_phone_class"}
           [] field = "agent_email" -> {"agent_email_class"}
           [] OTHER -> {"googleMap_shortcode_class"}
    ELSE CASE field = "property_id" -> {"Property Id"}
           [] field = "title" -> {"h1.entry-title"}
           [] field \in {"price", "currency"} -> {"price_area"}
           [] field = "description" -> {"wpestate_property_description"}
           [] field \in {"area", "city"} -> {"property_categs"}
           [] field = "bedrooms" -> {"Bedrooms"}
           [] field = "bathrooms" -> {"Bathrooms"}
           [] field = "agent_name" -> {"agent_details"}
           [] field = "agent_phone" -> {"agent_phone_class"}
           [] field = "agent_email" -> {"agent_email_class"}
           [] field \in {"latitude", "longitude"} -> {"googleMap_shortcode"}
           [] OTHER -> {}

\* C17: the dict scrape_listing returns has every key of required_fields, and
\* the empty string under a key whose element the page does not have.
C17_RequiredFields ==
    listing_data # NoData =>
        \A f \in required_fields :
            /\ f \in DOMAIN listing_data
            /\ ElementFor(site, f) \cap soup.elems = {} => listing_data[f] = ""

\* the image urls scrape_listing reads from one carousel item
SourcesOf(s, item) ==
    (IF s = "bayside" THEN {item.src, item.lazy} ELSE {RpemxItemUrl(item)})
        \ {NoAttr, DataUri}

\* C18: all_images of the returned dict holds every image url of the carousel
\* that is no data URI, holds none of them twice, and holds no data URI.
C18_ImageList ==
    (listing_data # NoData /\ "all_images" \in DOMAIN listing_data) =>
        LET all_images == listing_data["all_images"] IN
            /\ \A i, j \in 1..Len(all_images) :
                  all_images[i] = all_images[j] => i = j
            /\ ~InList(all_images, DataUri)
            /\ \A i \in 1..Len(soup.items) :
                  \A u \in SourcesOf(site, soup.items[i]) : InList(all_images, u)

\* C21: rpemx: a step in which save_to_database did not commit the listing
\* leaves scraped_urls as it was.
C21_DoneOnlyIfCommitted ==
    [][(site = "rpemx" /\ ev' \in {"fetch_save_failed", "fetch_save_raised"}) =>
          scraped_urls' = scraped_urls]_vars

\* C23: a background task that was started without max_listings runs with the
\* default MAX_LISTINGS.
C23_CapOfThisRun ==
    [][(running = NoTask /\ running' # NoTask /\ running'.max_listings = 0) =>
          MAX_LISTINGS' = DefaultMaxListings]_vars

\* C22: on every site, main() of the bayside crawl comes to its end.
C22_CrawlTerminates ==
    <>(cpc = "done")

====
